---- MODULE Spec2Model ----
(***************************************************************************)
(* A model of the PII detector of src/pii_detector.py: the structured      *)
(* patterns, the name heuristics, the external person recognizer, the      *)
(* sort-and-merge walk of analyze_text, the entity grouping and the        *)
(* highlighter.  Offsets are 0-based character offsets as in the source;   *)
(* a text is a sequence of one-character strings, so text[k+1] is the      *)
(* character at offset k.                                                  *)
(***************************************************************************)
EXTENDS Integers, Sequences, FiniteSets, TLC

VARIABLES
    text,            \* analyze_text's argument: the text, a sequence of characters
    enabled_labels,  \* analyze_text's argument: [given |-> BOOLEAN, labels |-> set]
    nlp,             \* the module-level _nlp: "absent" (None: spaCy or its model
                     \* could not be loaded), "loaded", or "failing" (loaded, and
                     \* the call _nlp(text) raises, as spaCy's does for a text
                     \* longer than its max_length)
    pc,              \* the position of analyze_text
    spans,           \* the local list spans of analyze_text
    i,               \* the index of the merge loop into spans
    merged,          \* the local list merged of analyze_text
    grouped,         \* the local dict grouped of analyze_text
    highlighted      \* the pieces of the string _build_highlighted_html returns

vars == <<text, enabled_labels, nlp, pc, spans, i, merged, grouped, highlighted>>

(***************************************************************************)
(* Bounds of the merge specification.                                      *)
(***************************************************************************)
MaxPos == 5
MaxCands == 3

(***************************************************************************)
(* Bound of the highlighter specification: the length of the text.         *)
(***************************************************************************)
MaxTextLen == 4

(***************************************************************************)
(* Bounds of the specification of analyze_text: the length of a blank      *)
(* text, the size of a given label list, and the entities the recognizer   *)
(* returns and the tokens each spans.                                      *)
(***************************************************************************)
MaxBlankLen == 2
MaxEnabled == 1
MaxEnts == 1
MaxEntTokens == 3

----------------------------------------------------------------------------
(* Spans: (label, start, end, source) tuples of the source, as records.    *)

Span(label, start, end, source) ==
    [label |-> label, start |-> start, end |-> end, source |-> source]

SpanLen(s) == s.end - s.start

Last(seq) == seq[Len(seq)]

Min(a, b) == IF a < b THEN a ELSE b

\* The Python slice t[a:b] for 0 <= a: offsets beyond the end are clamped.
Slice(t, a, b) == SubSeq(t, Min(a, Len(t)) + 1, Min(b, Len(t)))

\* The empty dict grouped.
NoGrouped == [l \in {} |-> <<>>]

----------------------------------------------------------------------------
(* The sort of analyze_text: list.sort with key (start, -(end - start)),   *)
(* which is stable.                                                        *)

SortKeyLess(a, b) ==
    \/ a.start < b.start
    \/ a.start = b.start /\ SpanLen(a) > SpanLen(b)

RECURSIVE InsertSorted(_, _)
InsertSorted(sorted, x) ==
    IF sorted = <<>> THEN <<x>>
    ELSE IF SortKeyLess(x, Last(sorted))
         THEN Append(InsertSorted(SubSeq(sorted, 1, Len(sorted) - 1), x), Last(sorted))
         ELSE Append(sorted, x)

RECURSIVE StableSort(_)
StableSort(s) ==
    IF s = <<>> THEN <<>>
    ELSE InsertSorted(StableSort(SubSeq(s, 1, Len(s) - 1)), Last(s))

\* A plausible slip: the candidates are walked in production order.
SortSpansUnsorted(s) == s

SortSpans(s) == StableSort(s)

----------------------------------------------------------------------------
(* The conditions of the merge walk.                                       *)

\* A plausible slip: the candidate is compared with the last span's start.
OverlapsLastStart(cand, last) == cand.start <= last.start

\* A plausible slip: the candidate's start is tested against the last span's
\* start from the wrong side, which holds of every sorted candidate.
OverlapsLastFromStart(cand, last) == last.start <= cand.start

\* `if start <= last_end`
OverlapsLast(cand, last) == cand.start <= last.end

\* A plausible slip: the comparison is inverted, the shorter span is kept.
LongerInverted(cand, last) == SpanLen(cand) < SpanLen(last)

\* `if (end - start) > (last_end - last_start)`
Longer(cand, last) == SpanLen(cand) > SpanLen(last)

----------------------------------------------------------------------------
(* The actions of the sort and the merge walk of analyze_text.             *)

Sort ==
    /\ pc = "sort"
    /\ spans' = SortSpans(spans)
    /\ merged' = <<>>
    /\ i' = 1
    /\ pc' = "merge"
    /\ UNCHANGED <<text, enabled_labels, nlp, grouped, highlighted>>

\* `if not merged: merged.append(...); continue`
MergeFirst ==
    /\ pc = "merge"
    /\ i <= Len(spans)
    /\ merged = <<>>
    /\ merged' = <<spans[i]>>
    /\ i' = i + 1
    /\ UNCHANGED <<text, enabled_labels, nlp, pc, spans, grouped, highlighted>>

\* overlap and strictly longer: `merged[-1] = (label, start, end, source)`
MergeReplace ==
    /\ pc = "merge"
    /\ i <= Len(spans)
    /\ merged # <<>>
    /\ OverlapsLast(spans[i], Last(merged))
    /\ Longer(spans[i], Last(merged))
    /\ merged' = [merged EXCEPT ![Len(merged)] = spans[i]]
    /\ i' = i + 1
    /\ UNCHANGED <<text, enabled_labels, nlp, pc, spans, grouped, highlighted>>

\* overlap and not longer: the candidate is dropped
MergeDiscard ==
    /\ pc = "merge"
    /\ i <= Len(spans)
    /\ merged # <<>>
    /\ OverlapsLast(spans[i], Last(merged))
    /\ ~Longer(spans[i], Last(merged))
    /\ i' = i + 1
    /\ UNCHANGED <<text, enabled_labels, nlp, pc, spans, merged, grouped, highlighted>>

\* no overlap: `merged.append((label, start, end, source))`
MergeAppend ==
    /\ pc = "merge"
    /\ i <= Len(spans)
    /\ merged # <<>>
    /\ ~OverlapsLast(spans[i], Last(merged))
    /\ merged' = Append(merged, spans[i])
    /\ i' = i + 1
    /\ UNCHANGED <<text, enabled_labels, nlp, pc, spans, grouped, highlighted>>

\* the loop over spans is exhausted
MergeEnd ==
    /\ pc = "merge"
    /\ i > Len(spans)
    /\ pc' = "merged"
    /\ UNCHANGED <<text, enabled_labels, nlp, spans, i, merged, grouped, highlighted>>

----------------------------------------------------------------------------
(* Characters, as Python's str methods and the re module class them (the   *)
(* ASCII part).                                                            *)

LowerCase == <<"a", "b", "c", "d", "e", "f", "g", "h", "i", "j", "k", "l", "m",
               "n", "o", "p", "q", "r", "s", "t", "u", "v", "w", "x", "y", "z">>

UpperCase == <<"A", "B", "C", "D", "E", "F", "G", "H", "I", "J", "K", "L", "M",
               "N", "O", "P", "Q", "R", "S", "T", "U", "V", "W", "X", "Y", "Z">>

Range(seq) == { seq[k] : k \in 1..Len(seq) }

az == Range(LowerCase)
AZ == Range(UpperCase)
Digit == {"0", "1", "2", "3", "4", "5", "6", "7", "8", "9"}
Space == {" ", "\t", "\n", "\r", "\f"}
WordChar == az \cup AZ \cup Digit \cup {"_"}

\* str.lower() and str.upper() of one character
LowerOf(c) ==
    IF c \in AZ THEN LowerCase[CHOOSE k \in 1..Len(UpperCase) : UpperCase[k] = c] ELSE c

UpperOf(c) ==
    IF c \in az THEN UpperCase[CHOOSE k \in 1..Len(LowerCase) : LowerCase[k] = c] ELSE c

Lowered(s) == [k \in 1..Len(s) |-> LowerOf(s[k])]

----------------------------------------------------------------------------
(* Regular expressions, matched as Python's re module matches them: by     *)
(* backtracking, the alternatives in order, the quantifiers greedy.  A     *)
(* match state is the offset reached, the offsets of the capturing groups  *)
(* 1 and 2 (<<-1, -1>> while a group has not taken part) and the number of  *)
(* the group closed last (0: none).                                         *)

\* The upper bound of an unbounded repetition.
Inf == 0 - 1

Chars(S) == [t |-> "set", s |-> S]
NotChars(S) == [t |-> "nset", s |-> S]
Cat(items) == [t |-> "cat", items |-> items]
Alt(items) == [t |-> "alt", items |-> items]
Rep(r, lo, hi) == [t |-> "rep", r |-> r, lo |-> lo, hi |-> hi]
Grp(n, r) == [t |-> "grp", n |-> n, r |-> r]
WordB == [t |-> "wb"]

Lit(w) == Cat([k \in 1..Len(w) |-> Chars({w[k]})])
Opt(r) == Rep(r, 0, 1)
Star(r) == Rep(r, 0, Inf)
Plus(r) == Rep(r, 1, Inf)

NoGroup == <<-1, -1>>

StartState(p) == [pos |-> p, caps |-> <<NoGroup, NoGroup>>, last |-> 0]

\* A character against a class; under re.IGNORECASE in either case.
InClass(c, S, ic) == c \in S \/ (ic /\ (LowerOf(c) \in S \/ UpperOf(c) \in S))

\* \b: exactly one side of the offset is a word character.
AtWordBoundary(t, p) ==
    LET before == p >= 1 /\ t[p] \in WordChar
        after == p < Len(t) /\ t[p + 1] \in WordChar
    IN before # after

RECURSIVE M(_, _, _, _), MAll(_, _, _, _), MCat(_, _, _, _, _),
          MAlt(_, _, _, _, _), MRep(_, _, _, _, _, _)

\* The states in which r can end when started in state st, in the order in
\* which backtracking tries them.
M(r, t, ic, st) ==
    CASE r.t = "set" ->
            IF st.pos < Len(t) /\ InClass(t[st.pos + 1], r.s, ic)
            THEN <<[st EXCEPT !.pos = st.pos + 1]>> ELSE <<>>
      [] r.t = "nset" ->
            IF st.pos < Len(t) /\ ~InClass(t[st.pos + 1], r.s, ic)
            THEN <<[st EXCEPT !.pos = st.pos + 1]>> ELSE <<>>
      [] r.t = "wb" -> IF AtWordBoundary(t, st.pos) THEN <<st>> ELSE <<>>
      [] r.t = "cat" -> MCat(r.items, 1, t, ic, <<st>>)
      [] r.t = "alt" -> MAlt(r.items, 1, t, ic, st)
      [] r.t = "rep" -> MRep(r.r, r.lo, r.hi, t, ic, st)
      [] r.t = "grp" ->
            LET ends == M(r.r, t, ic, st)
            IN [k \in 1..Len(ends) |->
                   [ends[k] EXCEPT !.caps[r.n] = <<st.pos, ends[k].pos>>,
                                   !.last = r.n]]

MAll(r, t, ic, sts) ==
    IF sts = <<>> THEN <<>>
    ELSE M(r, t, ic, Head(sts)) \o MAll(r, t, ic, Tail(sts))

MCat(items, k, t, ic, sts) ==
    IF k > Len(items) \/ sts = <<>> THEN sts
    ELSE MCat(items, k + 1, t, ic, MAll(items[k], t, ic, sts))

MAlt(items, k, t, ic, st) ==
    IF k > Len(items) THEN <<>>
    ELSE M(items[k], t, ic, st) \o MAlt(items, k + 1, t, ic, st)

RECURSIVE MRepAll(_, _, _, _, _, _)
MRepAll(r, lo, hi, t, ic, sts) ==
    IF sts = <<>> THEN <<>>
    ELSE MRep(r, lo, hi, t, ic, Head(sts)) \o MRepAll(r, lo, hi, t, ic, Tail(sts))

\* Greedy repetition: one more round first, stopping here after it.
MRep(r, lo, hi, t, ic, st) ==
    LET Advanced(s) == s.pos > st.pos
        more == IF hi = 0 THEN <<>>
                ELSE MRepAll(r, lo - 1, hi - 1, t, ic,
                             SelectSeq(M(r, t, ic, st), Advanced))
        stop == IF lo <= 0 THEN <<st>> ELSE <<>>
    IN more \o stop

\* The match object of pattern.match at offset p, or NoMatch.
NoMatch == [start |-> -1, end |-> -1, caps |-> <<NoGroup, NoGroup>>, last |-> 0]

MatchAt(r, t, ic, p) ==
    LET ends == M(r, t, ic, StartState(p))
    IN IF ends = <<>> THEN NoMatch
       ELSE [start |-> p, end |-> ends[1].pos, caps |-> ends[1].caps,
             last |-> ends[1].last]

\* pattern.finditer(text): the leftmost match from offset p on, then the
\* matches after its end (after an empty match, from the next offset).
RECURSIVE FindIter(_, _, _, _)
FindIter(r, t, ic, p) ==
    LET starts == { s \in p..Len(t) : MatchAt(r, t, ic, s) # NoMatch }
        first == CHOOSE s \in starts : \A x \in starts : s <= x
        m == MatchAt(r, t, ic, first)
    IN IF starts = {} THEN <<>>
       ELSE <<m>> \o FindIter(r, t, ic, IF m.end > first THEN m.end ELSE first + 1)

----------------------------------------------------------------------------
(* The word lists of the module.                                           *)

_NAME_STOPWORDS == {
    <<"i">>, <<"w", "e">>, <<"y", "o", "u">>, <<"h", "e">>,
    <<"s", "h", "e">>, <<"i", "t">>, <<"t", "h", "e", "y">>, <<"m", "e">>,
    <<"h", "i", "m">>, <<"h", "e", "r">>, <<"u", "s">>,
    <<"t", "h", "e", "m">>, <<"m", "y">>, <<"o", "u", "r">>,
    <<"y", "o", "u", "r">>, <<"h", "i", "s">>, <<"h", "e", "r">>,
    <<"i", "t", "s">>, <<"t", "h", "e", "i", "r">>,
    <<"t", "h", "e", "r", "e">>, <<"t", "h", "e">>, <<"a">>, <<"a", "n">>,
    <<"a", "n", "d">>, <<"o", "r">>, <<"b", "u", "t">>, <<"i", "n">>,
    <<"o", "n">>, <<"a", "t">>, <<"t", "o">>, <<"f", "o", "r">>,
    <<"i", "s">>, <<"a", "r", "e">>, <<"w", "a", "s">>,
    <<"w", "e", "r", "e">>, <<"b", "e">>, <<"b", "e", "e", "n">>,
    <<"b", "e", "i", "n", "g">>, <<"h", "a", "v", "e">>, <<"h", "a", "s">>,
    <<"h", "a", "d">>, <<"d", "o">>, <<"d", "o", "e", "s">>,
    <<"d", "i", "d">>, <<"w", "i", "l", "l">>, <<"w", "o", "u", "l", "d">>,
    <<"s", "h", "o", "u", "l", "d">>, <<"c", "o", "u", "l", "d">>,
    <<"m", "a", "y">>, <<"m", "i", "g", "h", "t">>, <<"m", "u", "s", "t">>,
    <<"t", "h", "i", "s">>, <<"t", "h", "a", "t">>,
    <<"t", "h", "e", "s", "e">>, <<"t", "h", "o", "s", "e">>,
    <<"c", "a", "n">>, <<"f", "r", "o", "m">>, <<"w", "i", "t", "h">>,
    <<"a", "b", "o", "u", "t">>, <<"a", "s">>, <<"b", "y">>, <<"o", "f">>,
    <<"n", "o", "t">>, <<"n", "o">>, <<"y", "e", "s">>, <<"o", "k">>,
    <<"o", "k", "a", "y">>
}

_LOCATION_NAMES == {
    <<"i", "s", "l", "a", "m", "a", "b", "a", "d">>,
    <<"r", "a", "w", "a", "l", "p", "i", "n", "d", "i">>,
    <<"l", "a", "h", "o", "r", "e">>, <<"k", "a", "r", "a", "c", "h", "i">>,
    <<"p", "e", "s", "h", "a", "w", "a", "r">>,
    <<"q", "u", "e", "t", "t", "a">>, <<"m", "u", "l", "t", "a", "n">>,
    <<"f", "a", "i", "s", "a", "l", "a", "b", "a", "d">>,
    <<"s", "i", "a", "l", "k", "o", "t">>,
    <<"g", "u", "j", "r", "a", "n", "w", "a", "l", "a">>,
    <<"h", "y", "d", "e", "r", "a", "b", "a", "d">>,
    <<"s", "u", "k", "k", "u", "r">>,
    <<"b", "a", "h", "a", "w", "a", "l", "p", "u", "r">>,
    <<"s", "a", "r", "g", "o", "d", "h", "a">>,
    <<"s", "h", "e", "k", "h", "u", "p", "u", "r", "a">>,
    <<"j", "h", "a", "n", "g">>,
    <<"r", "a", "h", "i", "m", " ", "y", "a", "r", " ", "k", "h", "a", "n">>,
    <<"p", "a", "k", "i", "s", "t", "a", "n">>,
    <<"p", "u", "n", "j", "a", "b">>, <<"s", "i", "n", "d", "h">>,
    <<"b", "a", "l", "o", "c", "h", "i", "s", "t", "a", "n">>,
    <<"k", "p", "k">>
}

\* The set is joined into the title pattern in its iteration order, which
\* Python does not fix; any order gives the same matches, since \.?\s+ must
\* follow the title and no title followed by "." or a space begins another.
_NAME_TITLES == <<
    <<"m", "r">>, <<"m", "r", "s">>, <<"m", "s">>, <<"m", "i", "s", "s">>,
    <<"d", "r">>, <<"p", "r", "o", "f">>,
    <<"p", "r", "o", "f", "e", "s", "s", "o", "r">>, <<"s", "i", "r">>,
    <<"m", "a", "d", "a", "m">>, <<"l", "o", "r", "d">>,
    <<"l", "a", "d", "y">>
>>

common_verbs == {
    <<"r", "e", "s", "e", "t">>, <<"s", "e", "t">>, <<"g", "e", "t">>,
    <<"m", "a", "k", "e">>, <<"t", "a", "k", "e">>, <<"g", "i", "v", "e">>,
    <<"s", "e", "n", "d">>, <<"h", "e", "l", "p">>,
    <<"s", "t", "a", "r", "t">>, <<"s", "t", "o", "p">>, <<"r", "u", "n">>,
    <<"w", "a", "l", "k">>, <<"t", "a", "l", "k">>, <<"w", "o", "r", "k">>,
    <<"p", "l", "a", "y">>, <<"s", "t", "a", "y">>
}

----------------------------------------------------------------------------
(* _regex_patterns: the structured patterns, in the order of the dict.     *)

AlNum == az \cup AZ \cup Digit
Sep == Chars({"-", "."} \cup Space)
D == Chars(Digit)
Sp == Chars(Space)

USERNAME_RE ==
    Cat(<<WordB,
          Alt(<<Lit(<<"u", "s", "e", "r", "n", "a", "m", "e">>), Lit(<<"u", "s", "e", "r">>), Lit(<<"u", "s", "e", "r", "i", "d">>),
                Cat(<<Lit(<<"u", "s", "e", "r">>), Opt(Chars({"-", "_"})), Lit(<<"i", "d">>)>>),
                Lit(<<"l", "o", "g", "i", "n">>)>>),
          Star(Sp), Chars({":", "="}), Star(Sp),
          Grp(1, Rep(Chars(AlNum \cup {"_", ".", "-"}), 3, Inf))>>)

PASSWORD_RE ==
    Cat(<<WordB,
          Alt(<<Lit(<<"p", "a", "s", "s", "w", "o", "r", "d">>), Lit(<<"p", "a", "s", "s", "w", "d">>), Lit(<<"p", "w", "d">>), Lit(<<"p", "a", "s", "s">>)>>),
          Star(Sp), Chars({":", "="}), Star(Sp),
          Grp(1, Rep(NotChars(Space \cup {",", ";"}), 6, Inf))>>)

EMAIL_RE ==
    Cat(<<WordB, Plus(Chars(AlNum \cup {".", "_", "%", "+", "-"})), Chars({"@"}),
          Plus(Chars(AlNum \cup {".", "-"})), Chars({"."}),
          Rep(Chars(az \cup AZ), 2, Inf), WordB>>)

PHONE_RE ==
    Alt(<<Cat(<<Opt(Alt(<<Lit(<<"+", "9", "2">>), Lit(<<"0">>)>>)), Opt(Sep), Chars({"3"}),
                Rep(D, 2, 2), Opt(Sep), Rep(D, 7, 7)>>),
          Cat(<<WordB,
                Opt(Cat(<<Opt(Chars({"+"})), Rep(D, 1, 3), Opt(Sep)>>)),
                Opt(Chars({"("})), Rep(D, 2, 4), Opt(Chars({")"})), Opt(Sep),
                Rep(D, 3, 4), Opt(Sep), Rep(D, 4, 4), WordB>>)>>)

\* 25[0-5]|2[0-4]\d|[01]?\d\d?
Octet ==
    Alt(<<Cat(<<Lit(<<"2", "5">>), Chars({"0", "1", "2", "3", "4", "5"})>>),
          Cat(<<Chars({"2"}), Chars({"0", "1", "2", "3", "4"}), D>>),
          Cat(<<Opt(Chars({"0", "1"})), D, Opt(D)>>)>>)

IP_ADDRESS_RE ==
    Cat(<<WordB, Rep(Cat(<<Octet, Chars({"."})>>), 3, 3), Octet, WordB>>)

NATIONAL_ID_RE ==
    Cat(<<WordB, Rep(D, 5, 5), Chars({"-"}), Rep(D, 7, 7), Chars({"-"}), D, WordB>>)

CREDIT_CARD_RE ==
    Alt(<<Cat(<<WordB,
                Rep(Cat(<<Rep(D, 4, 4), Opt(Chars({"-"} \cup Space))>>), 3, 3),
                Rep(D, 4, 4)>>),
          Cat(<<WordB, Rep(D, 13, 16), WordB>>)>>)

BANK_ACCOUNT_RE ==
    Cat(<<WordB, Alt(<<Lit(<<"a", "c", "c", "o", "u", "n", "t">>), Lit(<<"a", "c", "c">>), Lit(<<"a", "c", "c", "t">>)>>),
          Star(Chars(Space \cup {"#", ":"})), Grp(1, Rep(D, 10, 18)), WordB>>)

Cities ==
    Alt(<<Lit(<<"I", "s", "l", "a", "m", "a", "b", "a", "d">>), Lit(<<"R", "a", "w", "a", "l", "p", "i", "n", "d", "i">>), Lit(<<"L", "a", "h", "o", "r", "e">>),
          Lit(<<"K", "a", "r", "a", "c", "h", "i">>), Lit(<<"P", "e", "s", "h", "a", "w", "a", "r">>), Lit(<<"Q", "u", "e", "t", "t", "a">>),
          Lit(<<"M", "u", "l", "t", "a", "n">>), Lit(<<"F", "a", "i", "s", "a", "l", "a", "b", "a", "d">>), Lit(<<"S", "i", "a", "l", "k", "o", "t">>),
          Lit(<<"G", "u", "j", "r", "a", "n", "w", "a", "l", "a">>), Lit(<<"H", "y", "d", "e", "r", "a", "b", "a", "d">>)>>)

\* [A-Z][a-z]+ after optional blanks and an optional comma
CommaWord ==
    Cat(<<Star(Sp), Opt(Chars({","})), Star(Sp), Chars(AZ), Plus(Chars(az))>>)

ADDRESS_RE ==
    Alt(<<Cat(<<WordB, Chars(AZ), Opt(Chars({"-"})), Rep(D, 1, 2),
                Opt(Cat(<<Chars({"/"}), Rep(D, 1, 2)>>)),
                Star(Sp), Opt(Chars({","})), Star(Sp), Cities, WordB>>),
          Cat(<<WordB,
                Alt(<<Lit(<<"h", "o", "u", "s", "e">>), Lit(<<"f", "l", "a", "t">>), Lit(<<"p", "l", "o", "t">>),
                      Lit(<<"s", "t", "r", "e", "e", "t">>), Lit(<<"s", "t">>), Lit(<<"r", "o", "a", "d">>), Lit(<<"r", "d">>),
                      Lit(<<"a", "v", "e", "n", "u", "e">>), Lit(<<"a", "v", "e">>), Lit(<<"b", "l", "o", "c", "k">>)>>),
                Star(Chars(Space \cup {"#", ":"})),
                Plus(Chars(AZ \cup Digit \cup {"-", "/"})),
                Rep(CommaWord, 1, 3), WordB>>),
          Cat(<<WordB,
                Alt(<<Lit(<<"a", "d", "d", "r", "e", "s", "s">>), Lit(<<"l", "o", "c", "a", "t", "i", "o", "n">>), Lit(<<"r", "e", "s", "i", "d", "e", "n", "c", "e">>)>>),
                Plus(Sp), Alt(<<Lit(<<"i", "s">>), Lit(<<":">>)>>), Plus(Sp),
                Grp(1, Cat(<<Chars(AZ \cup Digit),
                             Rep(NotChars({",", ".", "\n"}), 3, 50),
                             Opt(Cat(<<Chars({","}), Star(Sp), Chars(AZ),
                                       Plus(Chars(az))>>))>>))>>),
          Cat(<<WordB, Lit(<<"l", "i", "v", "e">>), Plus(Sp),
                Alt(<<Lit(<<"i", "n">>), Lit(<<"a", "t">>)>>), Plus(Sp),
                Grp(2, Cat(<<Chars(AZ \cup Digit),
                             Rep(NotChars({",", ".", "\n"}), 3, 50)>>))>>)>>)

PatternLabels ==
    <<"USERNAME", "PASSWORD", "EMAIL", "PHONE", "IP_ADDRESS", "NATIONAL_ID",
      "CREDIT_CARD", "BANK_ACCOUNT", "ADDRESS">>

\* The compiled pattern of a label and whether it is compiled with
\* re.IGNORECASE.
_regex_patterns(label) ==
    CASE label = "USERNAME" -> [re |-> USERNAME_RE, ic |-> TRUE]
      [] label = "PASSWORD" -> [re |-> PASSWORD_RE, ic |-> TRUE]
      [] label = "EMAIL" -> [re |-> EMAIL_RE, ic |-> FALSE]
      [] label = "PHONE" -> [re |-> PHONE_RE, ic |-> FALSE]
      [] label = "IP_ADDRESS" -> [re |-> IP_ADDRESS_RE, ic |-> FALSE]
      [] label = "NATIONAL_ID" -> [re |-> NATIONAL_ID_RE, ic |-> FALSE]
      [] label = "CREDIT_CARD" -> [re |-> CREDIT_CARD_RE, ic |-> FALSE]
      [] label = "BANK_ACCOUNT" -> [re |-> BANK_ACCOUNT_RE, ic |-> TRUE]
      [] label = "ADDRESS" -> [re |-> ADDRESS_RE, ic |-> TRUE]

----------------------------------------------------------------------------
(* _is_valid_name                                                          *)

RECURSIVE LStrip(_)
LStrip(s) == IF s # <<>> /\ Head(s) \in Space THEN LStrip(Tail(s)) ELSE s

RECURSIVE RStrip(_)
RStrip(s) ==
    IF s # <<>> /\ Last(s) \in Space THEN RStrip(SubSeq(s, 1, Len(s) - 1)) ELSE s

\* str.strip()
Strip(s) == RStrip(LStrip(s))

\* str.split(): the maximal runs of non-blank characters
RECURSIVE Split(_)
Split(s) ==
    LET body == LStrip(s)
        n == IF \E k \in 1..Len(body) : body[k] \in Space
             THEN (CHOOSE k \in 1..Len(body) :
                      body[k] \in Space /\ \A h \in 1..(k - 1) : body[h] \notin Space) - 1
             ELSE Len(body)
    IN IF body = <<>> THEN <<>>
       ELSE <<SubSeq(body, 1, n)>> \o Split(SubSeq(body, n + 1, Len(body)))

AllIn(words, S) == \A k \in 1..Len(words) : words[k] \in S

\* str.isupper(): a cased character, and no lower-case one
IsUpper(s) ==
    /\ \E k \in 1..Len(s) : s[k] \in AZ
    /\ \A k \in 1..Len(s) : s[k] \notin az

_is_valid_name(name) ==
    LET name_lower == Strip(Lowered(name))
        words == Split(name_lower)
    IN ~ \/ name_lower \in _NAME_STOPWORDS
         \/ name_lower \in _LOCATION_NAMES
         \/ AllIn(words, _NAME_STOPWORDS)
         \/ AllIn(words, _LOCATION_NAMES)
         \/ name_lower \in common_verbs \/ AllIn(words, common_verbs)
         \/ Len(Strip(name)) <= 1
         \/ ~ \E k \in 1..Len(name) : name[k] \in az \cup AZ
         \/ IsUpper(name) /\ Len(words) = 1 /\ Len(name) <= 4

----------------------------------------------------------------------------
(* _apply_regex                                                            *)

Group1(m) == m.caps[1]

\* m.group(n) is a non-empty string
GroupTruthy(m, n) == m.caps[n] # NoGroup /\ m.caps[n][2] > m.caps[n][1]

RECURSIVE Without(_, _)
Without(s, S) ==
    IF s = <<>> THEN <<>>
    ELSE (IF Head(s) \in S THEN <<>> ELSE <<Head(s)>>) \o Without(Tail(s), S)

\* The length and digit check on a credit card match.
CardOk(t, m) ==
    LET card_text == Without(Slice(t, m.start, m.end), {" ", "-"})
    IN /\ 13 <= Len(card_text) /\ Len(card_text) <= 16
       /\ \A k \in 1..Len(card_text) : card_text[k] \in Digit

\* The (label, start, end) tuples one match contributes: one or none.
MatchTuples(label, t, m) ==
    IF label \in {"PASSWORD", "USERNAME", "BANK_ACCOUNT"} /\ m.last # 0
    THEN <<[label |-> label, start |-> Group1(m)[1], end |-> Group1(m)[2]]>>
    ELSE IF label = "ADDRESS" /\ m.last # 0
    THEN IF \E g \in 1..m.last : GroupTruthy(m, g)
         THEN LET g == CHOOSE g \in 1..m.last :
                          GroupTruthy(m, g) /\ \A h \in 1..(g - 1) : ~GroupTruthy(m, h)
              IN <<[label |-> label, start |-> m.caps[g][1], end |-> m.caps[g][2]]>>
         ELSE <<[label |-> label, start |-> m.start, end |-> m.end]>>
    ELSE IF label = "CREDIT_CARD" /\ ~CardOk(t, m) THEN <<>>
    ELSE <<[label |-> label, start |-> m.start, end |-> m.end]>>

RECURSIVE TuplesOf(_, _, _)
TuplesOf(label, t, ms) ==
    IF ms = <<>> THEN <<>>
    ELSE MatchTuples(label, t, Head(ms)) \o TuplesOf(label, t, Tail(ms))

LabelMatches(label, t) ==
    TuplesOf(label, t,
             FindIter(_regex_patterns(label).re, t, _regex_patterns(label).ic, 0))

\* `if enabled_labels:`: None and the empty list are both false
Truthy(enabled) == enabled.given /\ enabled.labels # {}

\* The pattern of the label is kept by the filter of _apply_regex.
PatternRuns(label, enabled) ==
    ~Truthy(enabled) \/ label \in enabled.labels

RECURSIVE RegexFrom(_, _, _)
RegexFrom(k, t, enabled) ==
    IF k > Len(PatternLabels) THEN <<>>
    ELSE (IF PatternRuns(PatternLabels[k], enabled)
          THEN LabelMatches(PatternLabels[k], t) ELSE <<>>)
         \o RegexFrom(k + 1, t, enabled)

_apply_regex(t, enabled) == RegexFrom(1, t, enabled)

----------------------------------------------------------------------------
(* _apply_name_detection                                                   *)

Word2 == Cat(<<Chars(az \cup AZ), Rep(Chars(az), 1, Inf)>>)

\* [A-Za-z][a-z]{1,}(?:\s+[A-Za-z][a-z]{1,}){0,3}
NameWords == Cat(<<Word2, Rep(Cat(<<Plus(Sp), Word2>>), 0, 3)>>)

ctx_pattern ==
    Cat(<<WordB,
          Alt(<<Cat(<<Lit(<<"m", "y">>), Plus(Sp), Lit(<<"n", "a", "m", "e">>), Plus(Sp), Lit(<<"i", "s">>)>>),
                Cat(<<Lit(<<"n", "a", "m", "e">>), Plus(Sp), Lit(<<"i", "s">>)>>),
                Cat(<<Lit(<<"i">>), Plus(Sp), Lit(<<"a", "m">>)>>),
                Cat(<<Lit(<<"t", "h", "i", "s">>), Plus(Sp), Lit(<<"i", "s">>)>>),
                Cat(<<Lit(<<"c", "a", "l", "l">>), Plus(Sp), Lit(<<"m", "e">>)>>),
                Lit(<<"c", "a", "l", "l", "e", "d">>)>>),
          Plus(Sp), Grp(1, NameWords)>>)

pronoun_pattern ==
    Cat(<<WordB, Alt(<<Lit(<<"m", "e">>), Lit(<<"h", "i", "m">>), Lit(<<"h", "e", "r">>), Lit(<<"u", "s">>)>>),
          Plus(Sp), Grp(1, NameWords), WordB>>)

CapWord == Cat(<<Chars(AZ), Plus(Chars(az))>>)

title_pattern ==
    Cat(<<WordB,
          Grp(1, Alt([k \in 1..Len(_NAME_TITLES) |-> Lit(_NAME_TITLES[k])])),
          Opt(Chars({"."})), Plus(Sp),
          Grp(2, Cat(<<CapWord, Rep(Cat(<<Plus(Sp), CapWord>>), 0, 2)>>))>>)

CapWord3 == Cat(<<Chars(AZ), Rep(Chars(az), 2, Inf)>>)

standalone_pattern ==
    Cat(<<WordB,
          Grp(1, Cat(<<CapWord3, Rep(Cat(<<Plus(Sp), CapWord3>>), 1, 3)>>)),
          WordB>>)

name_contexts ==
    <<<<"c", "a", "l", "l", "e", "d">>, <<"n", "a", "m", "e", "d">>, <<"n", "a", "m", "e">>, <<"s", "i", "g", "n", "e", "d">>, <<"f", "r", "o", "m">>, <<"b", "y">>,
      <<"d", "e", "a", "r">>, <<"m", "e">>, <<"h", "i", "m">>, <<"h", "e", "r">>>>

\* `ctx in prefix`: ctx is a substring of prefix
Contains(s, w) ==
    \E k \in 1..(Len(s) - Len(w) + 1) : SubSeq(s, k, k + Len(w) - 1) = w

GroupText(t, m, n) == Slice(t, m.caps[n][1], m.caps[n][2])

GroupSpan(m, n) == [start |-> m.caps[n][1], end |-> m.caps[n][2]]

KeepCtx(t, m) == _is_valid_name(GroupText(t, m, 1))

KeepPronoun(t, m) ==
    /\ Len(Strip(GroupText(t, m, 1))) > 2
    /\ Lowered(GroupText(t, m, 1)) \notin _NAME_STOPWORDS

KeepTitle(t, m) == _is_valid_name(GroupText(t, m, 2))

KeepStandalone(t, m) ==
    /\ _is_valid_name(GroupText(t, m, 1))
    /\ LET start == m.start
           prefix == Lowered(Slice(t, IF start > 20 THEN start - 20 ELSE 0, start))
       IN \/ \E k \in 1..Len(name_contexts) : Contains(prefix, name_contexts[k])
          \/ start = 0
          \/ t[start] \in {".", "!", "?", "\n"}

\* The validation each of the four loops applies to a match.
Keep(which, t, m) ==
    CASE which = "ctx" -> KeepCtx(t, m)
      [] which = "pronoun" -> KeepPronoun(t, m)
      [] which = "title" -> KeepTitle(t, m)
      [] which = "standalone" -> KeepStandalone(t, m)

\* The (start, end) tuples of the matches ms whose group n passes Keep.
KeptGroups(t, ms, n, which) ==
    LET K(m) == Keep(which, t, m)
        kept == SelectSeq(ms, K)
    IN [k \in 1..Len(kept) |-> GroupSpan(kept[k], n)]

_apply_name_detection(t) ==
    KeptGroups(t, FindIter(ctx_pattern, t, TRUE, 0), 1, "ctx")
    \o KeptGroups(t, FindIter(pronoun_pattern, t, TRUE, 0), 1, "pronoun")
    \o KeptGroups(t, FindIter(title_pattern, t, TRUE, 0), 2, "title")
    \o KeptGroups(t, FindIter(standalone_pattern, t, FALSE, 0), 1, "standalone")
----------------------------------------------------------------------------
(* _escape_html: five replacements applied one after the other.            *)

RECURSIVE Replace(_, _, _)
Replace(s, c, rep) ==
    IF s = <<>> THEN <<>>
    ELSE (IF Head(s) = c THEN rep ELSE <<Head(s)>>) \o Replace(Tail(s), c, rep)

AmpEntity == <<"&", "a", "m", "p", ";">>
LtEntity == <<"&", "l", "t", ";">>
GtEntity == <<"&", "g", "t", ";">>
QuotEntity == <<"&", "q", "u", "o", "t", ";">>
AposEntity == <<"&", "#", "0", "3", "9", ";">>

\* A plausible slip: "&" is replaced after "<", so "<" comes out as "&amp;lt;".
EscapeAmpAfterLt(s) ==
    Replace(Replace(Replace(Replace(Replace(s,
        "<", LtEntity), "&", AmpEntity), ">", GtEntity), "\"", QuotEntity),
        "'", AposEntity)

_escape_html(s) ==
    Replace(Replace(Replace(Replace(Replace(s,
        "&", AmpEntity), "<", LtEntity), ">", GtEntity), "\"", QuotEntity),
        "'", AposEntity)

----------------------------------------------------------------------------
(* _build_highlighted_html.                                                *)

\* color_map.get(label, "#e0e0e0")
ColorOf(label) ==
    CASE label = "NAME" -> "#ffcccc"
      [] label = "USERNAME" -> "#e1bee7"
      [] label = "EMAIL" -> "#b3e5fc"
      [] label = "PHONE" -> "#b2dfdb"
      [] label = "IP_ADDRESS" -> "#f8bbd0"
      [] label = "NATIONAL_ID" -> "#c5cae9"
      [] label = "CREDIT_CARD" -> "#ffccbc"
      [] label = "PASSWORD" -> "#ffb3e6"
      [] label = "BANK_ACCOUNT" -> "#c8e6c9"
      [] label = "ADDRESS" -> "#fff59d"
      [] OTHER -> "#e0e0e0"

\* sorted(spans, key=lambda x: x[1]), which is stable
RECURSIVE InsertByStart(_, _)
InsertByStart(sorted, x) ==
    IF sorted = <<>> THEN <<x>>
    ELSE IF x.start < Last(sorted).start
         THEN Append(InsertByStart(SubSeq(sorted, 1, Len(sorted) - 1), x), Last(sorted))
         ELSE Append(sorted, x)

RECURSIVE SortedByStart(_)
SortedByStart(s) ==
    IF s = <<>> THEN <<>>
    ELSE InsertByStart(SortedByStart(SubSeq(s, 1, Len(s) - 1)), Last(s))

\* A piece of the output: escaped text outside any token, or a styled token.
PlainPiece(body) ==
    [kind |-> "text", body |-> body, bg |-> "", title |-> <<>>]

TokenPiece(s, body) ==
    [kind |-> "span", body |-> body, bg |-> ColorOf(s.label),
     title |-> <<s.label, s.source>>]

\* `if start > pos: parts.append(_escape_html(text[pos:start]))`
PlainBefore(t, pos, s) ==
    IF s.start > pos THEN <<PlainPiece(_escape_html(Slice(t, pos, s.start)))>>
    ELSE <<>>

\* The loop over the sorted spans with its cursor pos, then the remaining text.
RECURSIVE BuildParts(_, _, _, _)
BuildParts(t, sp, k, pos) ==
    IF k > Len(sp)
    THEN IF pos < Len(t) THEN <<PlainPiece(_escape_html(Slice(t, pos, Len(t))))>>
         ELSE <<>>
    ELSE PlainBefore(t, pos, sp[k])
         \o <<TokenPiece(sp[k], _escape_html(Slice(t, sp[k].start, sp[k].end)))>>
         \o BuildParts(t, sp, k + 1, sp[k].end)

\* The returned string: the opening <p ...>, the joined parts, the closing </p>.
_build_highlighted_html(t, sp) ==
    <<[kind |-> "p", body |-> <<>>, bg |-> "", title |-> <<>>]>>
    \o BuildParts(t, SortedByStart(sp), 1, 0)
    \o <<[kind |-> "/p", body |-> <<>>, bg |-> "", title |-> <<>>]>>

----------------------------------------------------------------------------
(* The grouping of analyze_text: grouped.setdefault(label, []).append(...) *)

Occurrence(t, s) ==
    [text |-> Slice(t, s.start, s.end), start |-> s.start, end |-> s.end,
     source |-> s.source]

RECURSIVE OccurrencesOf(_, _, _)
OccurrencesOf(t, m, label) ==
    IF m = <<>> THEN <<>>
    ELSE (IF Head(m).label = label THEN <<Occurrence(t, Head(m))>> ELSE <<>>)
         \o OccurrencesOf(t, Tail(m), label)

GroupOf(t, m) ==
    [label \in { m[k].label : k \in 1..Len(m) } |-> OccurrencesOf(t, m, label)]

Group ==
    /\ pc = "merged"
    /\ grouped' = GroupOf(text, merged)
    /\ pc' = "grouped"
    /\ UNCHANGED <<text, enabled_labels, nlp, spans, i, merged, highlighted>>

\* `highlighted = _build_highlighted_html(text, merged)` and the return
Highlight ==
    /\ pc = "grouped"
    /\ highlighted' = _build_highlighted_html(text, merged)
    /\ pc' = "done"
    /\ UNCHANGED <<text, enabled_labels, nlp, spans, i, merged, grouped>>

----------------------------------------------------------------------------
(* _apply_nlp_ner.  The recognizer is outside the repository: doc.ents is  *)
(* any sequence of at most MaxEnts entities, ordered and not overlapping,  *)
(* each labelled and spanning at most MaxEntTokens tokens of the text.     *)

CharClass(c) == IF c \in WordChar THEN "word" ELSE IF c \in Space THEN "space" ELSE c

\* The offsets at which a token can begin or end.
TokenBounds(t) ==
    { p \in 0..Len(t) : p = 0 \/ p = Len(t) \/ CharClass(t[p]) # CharClass(t[p + 1]) }

EntRanges(t, from) ==
    { r \in TokenBounds(t) \X TokenBounds(t) :
        /\ from <= r[1] /\ r[1] < r[2]
        /\ Cardinality({ p \in TokenBounds(t) : r[1] < p /\ p < r[2] }) < MaxEntTokens }

EntLabels == {"PERSON", "GPE"}

RECURSIVE EntSeqs(_, _, _)
EntSeqs(t, from, n) ==
    {<<>>} \cup
    (IF n = 0 THEN {}
     ELSE UNION { { <<[label_ |-> l, start_char |-> r[1], end_char |-> r[2]]>> \o rest :
                      rest \in EntSeqs(t, r[2], n - 1) } :
                  l \in EntLabels, r \in EntRanges(t, from) })

\* `enabled_labels is None or "NAME" in enabled_labels`
NameEnabled(enabled) == ~enabled.given \/ "NAME" \in enabled.labels

\* The loop of _apply_nlp_ner over doc.ents.
RECURSIVE NerResults(_, _, _)
NerResults(t, ents, enabled) ==
    IF ents = <<>> THEN <<>>
    ELSE (IF /\ Head(ents).label_ = "PERSON"
             /\ _is_valid_name(Slice(t, Head(ents).start_char, Head(ents).end_char))
             /\ ~(Truthy(enabled) /\ "NAME" \notin enabled.labels)
          THEN <<Span("NAME", Head(ents).start_char, Head(ents).end_char, "NLP")>>
          ELSE <<>>)
         \o NerResults(t, Tail(ents), enabled)

----------------------------------------------------------------------------
(* analyze_text up to the sort: the three detection steps.                 *)

RegexSpans(t, enabled) ==
    LET found == _apply_regex(t, enabled)
    IN [k \in 1..Len(found) |->
           Span(found[k].label, found[k].start, found[k].end, "REGEX")]

NameSpans(t) ==
    LET found == _apply_name_detection(t)
    IN [k \in 1..Len(found) |-> Span("NAME", found[k].start, found[k].end, "PATTERN")]

\* step 1: `for label, start, end in _apply_regex(...)`
ApplyRegex ==
    /\ pc = "regex"
    /\ spans' = spans \o RegexSpans(text, enabled_labels)
    /\ pc' = "names"
    /\ UNCHANGED <<text, enabled_labels, nlp, i, merged, grouped, highlighted>>

\* step 2, NAME enabled
ApplyNameDetection ==
    /\ pc = "names"
    /\ NameEnabled(enabled_labels)
    /\ spans' = spans \o NameSpans(text)
    /\ pc' = "nlp"
    /\ UNCHANGED <<text, enabled_labels, nlp, i, merged, grouped, highlighted>>

\* steps 2 and 3 are skipped when NAME is not enabled
SkipNames ==
    /\ pc = "names"
    /\ ~NameEnabled(enabled_labels)
    /\ pc' = "sort"
    /\ UNCHANGED <<text, enabled_labels, nlp, spans, i, merged, grouped, highlighted>>

\* step 3, `if _nlp is None: return []`
NlpAbsent ==
    /\ pc = "nlp"
    /\ nlp = "absent"
    /\ pc' = "sort"
    /\ UNCHANGED <<text, enabled_labels, nlp, spans, i, merged, grouped, highlighted>>

\* step 3, `doc = _nlp(text)` returns
NlpNer ==
    /\ pc = "nlp"
    /\ nlp = "loaded"
    /\ \E ents \in EntSeqs(text, 0, MaxEnts) :
          spans' = spans \o NerResults(text, ents, enabled_labels)
    /\ pc' = "sort"
    /\ UNCHANGED <<text, enabled_labels, nlp, i, merged, grouped, highlighted>>

\* step 3, `doc = _nlp(text)` raises: nothing in _apply_nlp_ner or in
\* analyze_text catches it, and analyze_text ends with the error.
NlpRaises ==
    /\ pc = "nlp"
    /\ nlp = "failing"
    /\ pc' = "error"
    /\ UNCHANGED <<text, enabled_labels, nlp, spans, i, merged, grouped, highlighted>>

----------------------------------------------------------------------------
(* The specification of analyze_text: every text of Texts and every blank  *)
(* text of at most MaxBlankLen characters, the label lists of at most      *)
(* MaxEnabled labels, None and the list of app.py, and the recognizer      *)
(* absent, loaded, or loaded with a call that raises.                      *)

Scenario1 == <<"C", "o", "n", "t", "a", "c", "t", " ", "m", "e", " ", "a", "t", " ", "j", "o", "h", "n", ".", "d", "o", "e", "@", "e", "x", "a", "m", "p", "l", "e", ".", "c", "o", "m", " ", "o", "r", " ", "0", "3", "0", "1", "-", "1", "2", "3", "4", "5", "6", "7", ".">>
Scenario2 == <<"M", "y", " ", "n", "a", "m", "e", " ", "i", "s", " ", "A", "h", "m", "e", "d", " ", "K", "h", "a", "n", " ", "a", "n", "d", " ", "I", " ", "l", "i", "v", "e", " ", "i", "n", " ", "L", "a", "h", "o", "r", "e", ".">>
Scenario3 == <<"u", "s", "e", "r", "n", "a", "m", "e", ":", " ", "a", "d", "m", "i", "n", "1", "2", "3", " ", "p", "a", "s", "s", "w", "o", "r", "d", ":", " ", "S", "e", "c", "r", "e", "t", "9", "9", "!">>
Scenario4 == <<"M", "y", " ", "C", "N", "I", "C", " ", "i", "s", " ", "1", "2", "3", "4", "5", "-", "1", "2", "3", "4", "5", "6", "7", "-", "1">>
Scenario6 == <<"S", "h", "e", " ", "s", "a", "i", "d", " ", "h", "e", "l", "l", "o">>
Abutting == <<"a", "@", "b", ".", "c", "o", "m", " ", "3", "0", "0", "1", "2", "3", "4", "5", "6", "7">>
Titled == <<"D", "e", "a", "r", " ", "D", "r", ".", " ", "A", "l", "i", " ", "R", "a", "z", "a", ",", " ", "c", "a", "r", "d", " ", "4", "1", "1", "1", " ", "1", "1", "1", "1", " ", "1", "1", "1", "1", " ", "1", "1", "1", "1", " ", "f", "r", "o", "m", " ", "1", "0", ".", "0", ".", "0", ".", "1">>

Texts == {Scenario1, Scenario2, Scenario3, Scenario4, Scenario6, Abutting, Titled}

BlankChars == {" ", "\t", "\n"}

BlankTexts == UNION { [1..n -> BlankChars] : n \in 0..MaxBlankLen }

AllLabels == {"NAME"} \cup Range(PatternLabels)

\* sensitive_labels of main() in app.py
sensitive_labels ==
    {"NAME", "PASSWORD", "EMAIL", "PHONE", "IP_ADDRESS", "NATIONAL_ID",
     "CREDIT_CARD", "BANK_ACCOUNT"}

None == [given |-> FALSE, labels |-> {}]

EnabledChoices ==
    {None}
    \cup { [given |-> TRUE, labels |-> S] :
             S \in { S \in SUBSET AllLabels : Cardinality(S) <= MaxEnabled } }
    \cup { [given |-> TRUE, labels |-> sensitive_labels] }

Init ==
    /\ text \in Texts \cup BlankTexts
    /\ enabled_labels \in EnabledChoices
    /\ nlp \in {"absent", "loaded", "failing"}
    /\ pc = "regex"
    /\ spans = <<>>
    /\ i = 0
    /\ merged = <<>>
    /\ grouped = NoGrouped
    /\ highlighted = <<>>

Next ==
    \/ ApplyRegex
    \/ ApplyNameDetection
    \/ SkipNames
    \/ NlpAbsent
    \/ NlpNer
    \/ NlpRaises
    \/ Sort
    \/ MergeFirst
    \/ MergeReplace
    \/ MergeDiscard
    \/ MergeAppend
    \/ MergeEnd
    \/ Group
    \/ Highlight

Spec == Init /\ [][Next]_vars

----------------------------------------------------------------------------
(* The merge specification: the merge step of analyze_text fed with every  *)
(* list of at most MaxCands candidate spans over the offsets 0..MaxPos.    *)

\* analyze_text appends the structured-pattern spans first and the name
\* spans after them: a candidate list is k "REGEX" spans, then "PATTERN" spans.
Ranges == { p \in (0..MaxPos) \X (0..MaxPos) : p[1] < p[2] }

CandList(n, k, r) ==
    [j \in 1..n |->
        IF j <= k THEN Span("EMAIL", r[j][1], r[j][2], "REGEX")
                  ELSE Span("NAME", r[j][1], r[j][2], "PATTERN")]

InitMerge ==
    /\ text = <<>>
    /\ enabled_labels = [given |-> FALSE, labels |-> {}]
    /\ nlp = "absent"
    /\ pc = "sort"
    /\ \E n \in 0..MaxCands : \E k \in 0..n : \E r \in [1..n -> Ranges] :
            spans = CandList(n, k, r)
    /\ i = 0
    /\ merged = <<>>
    /\ grouped = NoGrouped
    /\ highlighted = <<>>

NextMerge ==
    \/ Sort
    \/ MergeFirst
    \/ MergeReplace
    \/ MergeDiscard
    \/ MergeAppend
    \/ MergeEnd

SpecMerge == InitMerge /\ [][NextMerge]_vars

----------------------------------------------------------------------------
(* The highlighter specification: _build_highlighted_html fed with every   *)
(* text of at most MaxTextLen characters over HlChars and every ordered,   *)
(* non-overlapping sequence of spans inside it.                            *)

HlChars == {"&", "<", "l", "t", ";"}

HlLabels == {"NAME"}

HlSources == [NAME |-> "PATTERN"]

\* The ordered, non-overlapping span sequences whose spans start at or after
\* offset from and end at or before offset n.
RECURSIVE SpanSeqs(_, _)
SpanSeqs(from, n) ==
    {<<>>} \cup
    UNION { { <<Span(l, r[1], r[2], HlSources[l])>> \o rest :
                rest \in SpanSeqs(r[2], n) } :
            l \in HlLabels,
            r \in { p \in (from..n) \X (from..n) : p[1] < p[2] } }

InitHighlight ==
    /\ \E n \in 0..MaxTextLen : text \in [1..n -> HlChars]
    /\ enabled_labels = [given |-> FALSE, labels |-> {}]
    /\ nlp = "absent"
    /\ pc = "merged"
    /\ spans = <<>>
    /\ i = 0
    /\ merged \in SpanSeqs(0, Len(text))
    /\ grouped = NoGrouped
    /\ highlighted = <<>>

NextHighlight ==
    \/ Group
    \/ Highlight

SpecHighlight == InitHighlight /\ [][NextHighlight]_vars

----------------------------------------------------------------------------
(* Properties of the merge walk.                                           *)

\* Two half-open ranges [start, end) share at least one character offset.
SharesChar(a, b) == a.start < b.end /\ b.start < a.end

SameOffsets(a, b) == a.start = b.start /\ a.end = b.end

InMerged(c) == \E m \in 1..Len(merged) : SameOffsets(merged[m], c)

\* Overlap or abut: what `start <= last_end` tests between sorted spans.
Touches(a, b) == a.start <= b.end /\ b.start <= a.end

\* C1: no two spans of the merged result share a character offset: the
\* half-open ranges [start, end) of any two distinct merged spans are
\* disjoint, at every point of the walk and in its result.
C1_NonOverlap ==
    \A a, b \in 1..Len(merged) : a # b => ~SharesChar(merged[a], merged[b])

\* Two spans are merged and a third candidate was dropped.
C1_Witness ==
    /\ pc = "merged"
    /\ Len(merged) >= 2
    /\ Len(spans) > Len(merged)

\* C2: the merged sequence is strictly increasing in start, also after the
\* last accepted span has been replaced by a longer overlapping candidate.
C2_StrictlyIncreasingStart ==
    \A k \in 1..(Len(merged) - 1) : merged[k].start < merged[k + 1].start

\* The second candidate was accepted as a new span and then replaced by the
\* third, longer one.
C2_Witness ==
    /\ pc = "merged"
    /\ Len(spans) = 3
    /\ ~OverlapsLast(spans[2], spans[1])
    /\ merged = <<spans[1], spans[3]>>

\* C3 as stated: of any two overlapping candidates of different lengths the
\* merged result contains the longer one at its exact offsets and does not
\* contain the shorter one.
C3_LongestWinsAnyPair ==
    pc = "merged" =>
        \A a, b \in 1..Len(spans) :
            (SharesChar(spans[a], spans[b]) /\ SpanLen(spans[a]) > SpanLen(spans[b]))
                => (InMerged(spans[a]) /\ ~InMerged(spans[b]))

\* No candidate other than a and b overlaps or abuts candidate a.
NoThirdTouches(a, b) ==
    \A c \in 1..Len(spans) :
        (c # a /\ c # b) => ~Touches(spans[c], spans[a])

\* C3 as amended: of two overlapping candidates of different lengths, when
\* no third candidate overlaps or abuts the longer one, the merged result
\* contains the longer one at its exact offsets and not the shorter one.
C3_LongestWinsUndisturbed ==
    pc = "merged" =>
        \A a, b \in 1..Len(spans) :
            (/\ SharesChar(spans[a], spans[b])
             /\ SpanLen(spans[a]) > SpanLen(spans[b])
             /\ NoThirdTouches(a, b))
                => (InMerged(spans[a]) /\ ~InMerged(spans[b]))

\* Three candidates, two of them an overlapping pair of different lengths
\* whose longer one no third candidate overlaps or abuts.
C3_Witness ==
    /\ pc = "merged"
    /\ Len(spans) = 3
    /\ \E a, b \in 1..Len(spans) :
            /\ SharesChar(spans[a], spans[b])
            /\ SpanLen(spans[a]) > SpanLen(spans[b])
            /\ NoThirdTouches(a, b)
            /\ spans[b].start < spans[a].start

\* C9 as stated: a candidate that shares no character offset with the last
\* accepted span (also one that begins exactly where it ends) is appended
\* as a new merged span, and the last accepted span is kept.
C9_DisjointCandidateAppended ==
    [][(/\ pc = "merge"
        /\ i <= Len(spans)
        /\ merged # <<>>
        /\ ~SharesChar(spans[i], Last(merged)))
            => merged' = Append(merged, spans[i])]_vars

\* C10 as stated: every candidate shares at least one character offset
\* with some span of the merged result.
C10_EveryCandidateCovered ==
    pc = "merged" =>
        \A c \in 1..Len(spans) :
            \E m \in 1..Len(merged) : SharesChar(spans[c], merged[m])

\* The candidates linked to candidate c by a chain of candidates in which
\* each overlaps or abuts the next.
RECURSIVE Cluster(_)
Cluster(S) ==
    LET T == S \cup { d \in 1..Len(spans) :
                        \E c \in S : Touches(spans[c], spans[d]) }
    IN IF T = S THEN S ELSE Cluster(T)

\* C10 as amended: every candidate is linked to a span of the merged result
\* by a chain of candidates in which each overlaps or abuts the next; no
\* such cluster of candidates is lost entirely.
C10_EveryClusterCovered ==
    pc = "merged" =>
        \A c \in 1..Len(spans) :
            \E d \in Cluster({c}) : spans[d] \in { merged[m] : m \in 1..Len(merged) }

\* A candidate was dropped and shares no character offset with any span of
\* the merged result.
C10_Witness ==
    /\ pc = "merged"
    /\ \E c \in 1..Len(spans) :
            \A m \in 1..Len(merged) : ~SharesChar(spans[c], merged[m])

----------------------------------------------------------------------------
(* Properties of the highlighter.                                          *)

StartsWith(s, p) == Len(s) >= Len(p) /\ SubSeq(s, 1, Len(p)) = p

Drop(s, n) == SubSeq(s, n + 1, Len(s))

\* The reading of escaped text: each entity back to its character, left to
\* right.
RECURSIVE Unescape(_)
Unescape(s) ==
    IF s = <<>> THEN <<>>
    ELSE IF StartsWith(s, AmpEntity) THEN <<"&">> \o Unescape(Drop(s, Len(AmpEntity)))
    ELSE IF StartsWith(s, LtEntity) THEN <<"<">> \o Unescape(Drop(s, Len(LtEntity)))
    ELSE IF StartsWith(s, GtEntity) THEN <<">">> \o Unescape(Drop(s, Len(GtEntity)))
    ELSE IF StartsWith(s, QuotEntity) THEN <<"\"">> \o Unescape(Drop(s, Len(QuotEntity)))
    ELSE IF StartsWith(s, AposEntity) THEN <<"'">> \o Unescape(Drop(s, Len(AposEntity)))
    ELSE <<Head(s)>> \o Unescape(Tail(s))

\* The pieces with the wrapping tags removed and their bodies un-escaped,
\* joined in order.
RECURSIVE PlainTextOf(_)
PlainTextOf(pieces) ==
    IF pieces = <<>> THEN <<>>
    ELSE Unescape(Head(pieces).body) \o PlainTextOf(Tail(pieces))

IsToken(p) == p.kind = "span"

TokenTexts(pieces) ==
    LET toks == SelectSeq(pieces, IsToken)
    IN [k \in 1..Len(toks) |-> Unescape(toks[k].body)]

\* C6: for an ordered, non-overlapping span sequence the highlighter emits
\* every character of the text exactly once and in order: the un-escaped
\* pieces joined give back the text, the styled tokens are exactly the
\* spans' texts in order, and no raw reserved character is emitted.
C6_HighlighterCoverage ==
    pc = "done" =>
        /\ PlainTextOf(highlighted) = text
        /\ TokenTexts(highlighted) =
              [k \in 1..Len(merged) |-> Slice(text, merged[k].start, merged[k].end)]
        /\ \A k \in 1..Len(highlighted) :
              \A c \in 1..Len(highlighted[k].body) :
                  highlighted[k].body[c] \notin {"<", ">", "\"", "'"}

\* The text "&lt;" with a span inside it and text before and after the
\* span, rendered.
C6_Witness ==
    /\ pc = "done"
    /\ text = <<"&", "l", "t", ";">>
    /\ Len(merged) = 1
    /\ merged[1].start > 0
    /\ merged[1].end < Len(text)

----------------------------------------------------------------------------
(* Properties of analyze_text.                                             *)

\* The result of the merge walk over sorted candidates, as one fold.
RECURSIVE MergedFrom(_, _, _)
MergedFrom(sp, k, m) ==
    IF k > Len(sp) THEN m
    ELSE MergedFrom(sp, k + 1,
            IF m = <<>> THEN <<sp[k]>>
            ELSE IF OverlapsLast(sp[k], Last(m))
                 THEN (IF Longer(sp[k], Last(m))
                       THEN [m EXCEPT ![Len(m)] = sp[k]] ELSE m)
                 ELSE Append(m, sp[k]))

\* The candidates of the structured patterns and of the name heuristics.
OwnCandidates ==
    RegexSpans(text, enabled_labels)
    \o (IF NameEnabled(enabled_labels) THEN NameSpans(text) ELSE <<>>)

Returned == pc = "done"

Ended == pc \in {"done", "error"}

\* C4 as stated: whenever a label list is given, every merged span and
\* every key of the entity groups carries a label of the list.
C4_LabelFiltering ==
    (Returned /\ enabled_labels.given) =>
        /\ \A k \in 1..Len(merged) : merged[k].label \in enabled_labels.labels
        /\ DOMAIN grouped \subseteq enabled_labels.labels

\* What the code does keep: the filter holds for every non-empty list.
FilterHoldsForNonEmptyList ==
    (Returned /\ Truthy(enabled_labels)) =>
        /\ \A k \in 1..Len(merged) : merged[k].label \in enabled_labels.labels
        /\ DOMAIN grouped \subseteq enabled_labels.labels

\* C5 as stated: with the recognizer absent, or with its call failing,
\* analyze_text ends without an error and returns the merged result of the
\* structured-pattern and heuristic candidates.
C5_DegradedRecognizer ==
    (Ended /\ nlp \in {"absent", "failing"}) =>
        /\ Returned
        /\ merged = MergedFrom(SortSpans(OwnCandidates), 1, <<>>)

\* What the code does keep: the absent recognizer contributes nothing.
AbsentRecognizerIsEmpty ==
    (Ended /\ nlp = "absent") =>
        /\ Returned
        /\ merged = MergedFrom(SortSpans(OwnCandidates), 1, <<>>)

AhmedKhan == <<"A", "h", "m", "e", "d", " ", "K", "h", "a", "n">>
Lahore == <<"L", "a", "h", "o", "r", "e">>

\* The span s covers exactly an occurrence of w in the text.
CoversExactly(s, w) == Slice(text, s.start, s.end) = w

\* The span s shares a character with an occurrence of w in the text.
TouchesWord(s, w) ==
    \E p \in 0..(Len(text) - Len(w)) :
        /\ Slice(text, p, p + Len(w)) = w
        /\ s.start < p + Len(w) /\ p < s.end

\* C7 as stated: for "My name is Ahmed Khan and I live in Lahore." with all
\* labels enabled the merged result has a NAME span over exactly
\* "Ahmed Khan", and no NAME span covers "Lahore".
C7_Scenario2 ==
    (Returned /\ text = Scenario2 /\ enabled_labels = None) =>
        /\ \E k \in 1..Len(merged) :
              merged[k].label = "NAME" /\ CoversExactly(merged[k], AhmedKhan)
        /\ \A k \in 1..Len(merged) :
              merged[k].label = "NAME" => ~TouchesWord(merged[k], Lahore)

\* What the code does keep of the scenario: no NAME span reaches "Lahore".
Scenario2NoNameOverLahore ==
    (Returned /\ text = Scenario2 /\ enabled_labels = None /\ nlp = "absent") =>
        \A k \in 1..Len(merged) :
            merged[k].label = "NAME" => ~TouchesWord(merged[k], Lahore)

IsBlank(t) == \A k \in 1..Len(t) : t[k] \in Space

\* C8 as stated: for the empty text and every blank text, with any label
\* list, analyze_text ends without an error, with no entity group and no
\* merged span.
C8_BlankText ==
    (Ended /\ IsBlank(text)) =>
        /\ Returned
        /\ merged = <<>>
        /\ grouped = NoGrouped

\* What the code does keep: a blank text yields nothing whenever
\* analyze_text returns.
BlankTextEmptyWhenReturned ==
    (Returned /\ IsBlank(text)) => (merged = <<>> /\ grouped = NoGrouped)

====
